---- MODULE Spec2Model ----
(***************************************************************************)
(* Broadcast dispatch engine of python-telegram-broadcast: the senders     *)
(* (send_method.py), the three strategies (strategy.py), handle_broadcast  *)
(* (main.py) and the result aggregator (custom_util.py, custom_dataclass). *)
(*                                                                         *)
(* A recipient is its position 1..n_sub in the subscriber list, which is   *)
(* also its telegram_id; content[i] is modelled as the payload element i.  *)
(***************************************************************************)
EXTENDS Integers, Sequences, FiniteSets, TLC

\* ------------------------------------------------------------------ bounds
MaxN == 3
MaxPoolN == 2
MaxRetryCfg == 3
MaxCombine == 2
\* time is counted in ticks of 1 / TicksPerSecond second
TicksPerSecond == 2
MaxSeconds == 3
MaxElapsed == 2
MaxRetryAfter == 2
MaxCpu == 2
MaxLines == 2
MaxLogList == 2
MaxWrites == 2
MaxLatency == 1
MaxNegRetry == 1

\* ------------------------------------------------------------- identifiers
BroadcastMethodType == {"TEXT", "PHOTO", "DOCUMENT", "VIDEO"}

BroadcastStrategyType ==
    {"ASYNCIO_SEQUENTIAL", "ASYNCIO_MULTIPROCESSING_POOL", "ASYNCIO_PROCESS_POOL"}

\* a value that is no member of the enumeration (e.g. the str "Text")
NotEnum == "str"

Senders == {"sendMessage", "sendPhoto", "sendDocument", "sendVideo"}

Strategies == {"AsyncSequential", "AsyncMultiProcessingPool", "AsyncProcessPool"}

\* what one remote call (bot.sendMessage, bot.sendPhoto, ...) can do
RemoteOutcomes ==
    {"ok", "RetryAfter", "TimedOut", "BadRequest", "Forbidden",
     "TelegramError", "FileNotFoundError", "Exception"}

Min(a, b) == IF a < b THEN a ELSE b

Max(a, b) == IF a > b THEN a ELSE b

\* ---------------------------------------------------------------- records
\* payload field of a JobResponse: one element content[i], or (whole) the
\* content list itself
Elem(i) == [whole |-> FALSE, elem |-> i]

Whole == [whole |-> TRUE, elem |-> 0]

\* a successful send result (Message, PhotoSize, Document, Video) of the
\* delivery made to target_id `to`
Artifact(to) == [kind |-> "sent", to |-> to]

\* ErrorInformation(type(error).__name__, str(error), traceback)
ErrorInformation(error_type, to) == [kind |-> error_type, to |-> to]

IsErrorInformation(result) == result.kind # "sent"

JobResponse(telegram_id, payload, result) ==
    [telegram_id |-> telegram_id, payload |-> payload, result |-> result]

BroadcastStats(n_job, n_success, n_failure) ==
    [n_job |-> n_job, n_success |-> n_success, n_failure |-> n_failure]

StatsAddEffect_inplace(a, b) ==
    LET sum == BroadcastStats(a.n_job + b.n_job,
                              a.n_success + b.n_success,
                              a.n_failure + b.n_failure)
    IN  [result |-> sum, self |-> sum, other |-> b]

\* BroadcastStats.__add__(self, other): the object it returns, and self and
\* other as the call leaves them
StatsAddEffect(a, b) ==
    [result |-> BroadcastStats(a.n_job + b.n_job,
                               a.n_success + b.n_success,
                               a.n_failure + b.n_failure),
     self |-> a, other |-> b]

\* a + b
StatsAdd(a, b) == StatsAddEffect(a, b).result

evaluate_broadcast_stats_nojob(sent, failed) ==
    BroadcastStats(Len(sent), Len(sent), Len(failed))

evaluate_broadcast_stats(sent, failed) ==
    BroadcastStats(Len(sent) + Len(failed), Len(sent), Len(failed))

\* ------------------------------------------------------------- aggregator
RECURSIVE SelectSeq2(_, _)
\* the items of s, in order, whose result is (want = TRUE) or is not an
\* ErrorInformation
SelectSeq2(s, want) ==
    IF s = <<>> THEN <<>>
    ELSE LET rest == SelectSeq2(Tail(s), want)
         IN  IF IsErrorInformation(Head(s).result) = want
             THEN <<Head(s)>> \o rest
             ELSE rest

RECURSIVE Reverse(_)
Reverse(s) == IF s = <<>> THEN <<>> ELSE Reverse(Tail(s)) \o <<Head(s)>>

separate_result_list_rev(result_list) ==
    <<Reverse(SelectSeq2(result_list, FALSE)), Reverse(SelectSeq2(result_list, TRUE))>>

\* <<sent_list, failed_list>>
separate_result_list(result_list) ==
    <<SelectSeq2(result_list, FALSE), SelectSeq2(result_list, TRUE)>>

separate_result_queue_lifo(result_queue) ==
    <<SelectSeq2(Reverse(result_queue), FALSE),
      SelectSeq2(Reverse(result_queue), TRUE)>>

\* the queue is drained in FIFO order
separate_result_queue(result_queue) ==
    <<SelectSeq2(result_queue, FALSE), SelectSeq2(result_queue, TRUE)>>

\* ------------------------------------------------------------ the log file
\* A text is a non-empty sequence of lines, a line a sequence of tokens; the
\* last line of a text is the one still open (no line break after it).
EmptyText == << <<>> >>

Lit(token) == << <<token>> >>

\* "\n"
LineBreak == << <<>>, <<>> >>

\* t1 followed by t2
Cat(t1, t2) ==
    SubSeq(t1, 1, Len(t1) - 1) \o <<t1[Len(t1)] \o t2[1]>> \o Tail(t2)

\* str.format of a payload: a str content element is inserted as it is, with
\* the line breaks it holds (content_lines lines); the content list is
\* inserted as its repr, one line
StrPayload(payload, content_lines) ==
    IF payload.whole
    THEN Lit([list |-> "content"])
    ELSE [k \in 1..content_lines |-> <<[elem |-> payload.elem, part |-> k]>>]

\* str(self.result): the repr of a dataclass or of a telegram object, one line
StrResult(result) == Lit([result |-> result])

\* JobResponse.dump
dump(jr, content_lines) ==
    Cat(Cat(Lit([telegram_id |-> jr.telegram_id]),
            StrPayload(jr.payload, content_lines)),
        StrResult(jr.result))

RECURSIVE WriteRecords(_, _, _)
\* for jr in job_response_list: file.write(f"{jr.dump()}\n")
WriteRecords(file, job_response_list, content_lines) ==
    IF job_response_list = <<>> THEN file
    ELSE WriteRecords(
             Cat(Cat(file, dump(Head(job_response_list), content_lines)), LineBreak),
             Tail(job_response_list), content_lines)

write_sent_result_truncate(file, job_response_list, payload, content_lines) ==
    WriteRecords(
        Cat(Cat(Cat(EmptyText, Lit([lit |-> "Payload: "])), StrPayload(payload, content_lines)),
            LineBreak),
        job_response_list, content_lines)

\* write_sent_result: open(log_sheet_path, "a"), the header, the records
write_sent_result(file, job_response_list, payload, content_lines) ==
    WriteRecords(
        Cat(Cat(Cat(file, Lit([lit |-> "Payload: "])), StrPayload(payload, content_lines)),
            LineBreak),
        job_response_list, content_lines)

\* --------------------------------------------------------------- selection
select_broadcast_method(dtype) ==
    CASE dtype = "PHOTO" -> "sendPhoto"
      [] dtype = "DOCUMENT" -> "sendDocument"
      [] dtype = "VIDEO" -> "sendVideo"
      [] dtype = "TEXT" -> "sendMessage"
      [] OTHER -> "ValueError"

select_broadcast_strategy(strategy) ==
    CASE strategy = "ASYNCIO_SEQUENTIAL" -> "AsyncSequential"
      [] strategy = "ASYNCIO_MULTIPROCESSING_POOL" -> "AsyncMultiProcessingPool"
      [] strategy = "ASYNCIO_PROCESS_POOL" -> "AsyncProcessPool"
      [] OTHER -> "ValueError"

\* handle_broadcast: an enum member is looked up, anything else is used as is
ResolveMethod(arg) ==
    IF arg \in BroadcastMethodType THEN select_broadcast_method(arg) ELSE arg

ResolveStrategy(arg) ==
    IF arg \in BroadcastStrategyType THEN select_broadcast_strategy(arg) ELSE arg

\* ------------------------------------------------------------ the senders
RaisedType_passthrough(sender, outcome) == outcome

RaisedType_forbidden_wrapped(sender, outcome) ==
    CASE outcome = "FileNotFoundError" /\ sender # "sendMessage" -> "FileNotFoundError"
      [] outcome = "TimedOut" -> "TimedOut"
      [] OTHER -> "TelegramSendError"

\* The exception a sender raises for a failing remote call, by the order of
\* its except clauses.  sendMessage has no FileNotFoundError clause.
RaisedType(sender, outcome) ==
    CASE outcome = "FileNotFoundError" /\ sender # "sendMessage" -> "FileNotFoundError"
      [] outcome = "TimedOut" -> "TimedOut"
      [] outcome = "BadRequest" -> "TelegramSendError"
      [] outcome = "Forbidden" -> "Forbidden"
      [] outcome = "TelegramError" -> "TelegramSendError"
      [] OTHER -> "TelegramSendError"

\* whether the message of the raised exception holds str() of the exception
\* the remote call raised: TelegramSendError(..., str(err)) does; the new
\* FileNotFoundError, TimedOut and Forbidden are built from payload, elapsed
\* time and target_id
MessageKept(sender, outcome) ==
    CASE outcome = "FileNotFoundError" /\ sender # "sendMessage" -> FALSE
      [] outcome \in {"TimedOut", "Forbidden", "RetryAfter", "ok"} -> FALSE
      [] OTHER -> TRUE

SendOnce_retry_le(sender, outcome, n_retry, max_retry) ==
    IF sender \notin Senders
    THEN [k |-> "raise", kind |-> "TypeError", n |-> n_retry, called |-> FALSE]
    ELSE IF outcome = "ok"
    THEN [k |-> "return", kind |-> "sent", n |-> n_retry, called |-> TRUE]
    ELSE IF outcome = "RetryAfter"
    THEN IF n_retry + 1 <= max_retry
         THEN [k |-> "retry", kind |-> "RetryAfter", n |-> n_retry + 1, called |-> TRUE]
         ELSE [k |-> "raise", kind |-> "ExceedMaxRetriesError", n |-> n_retry + 1,
               called |-> TRUE]
    ELSE [k |-> "raise", kind |-> RaisedType(sender, outcome), n |-> n_retry,
          called |-> TRUE]

SendOnce_giveup_early(sender, outcome, n_retry, max_retry) ==
    IF sender \notin Senders
    THEN [k |-> "raise", kind |-> "TypeError", n |-> n_retry, called |-> FALSE]
    ELSE IF outcome = "ok"
    THEN [k |-> "return", kind |-> "sent", n |-> n_retry, called |-> TRUE]
    ELSE IF outcome = "RetryAfter"
    THEN IF n_retry + 2 < max_retry
         THEN [k |-> "retry", kind |-> "RetryAfter", n |-> n_retry + 1, called |-> TRUE]
         ELSE [k |-> "raise", kind |-> "ExceedMaxRetriesError", n |-> n_retry + 1,
               called |-> TRUE]
    ELSE [k |-> "raise", kind |-> RaisedType(sender, outcome), n |-> n_retry,
          called |-> TRUE]

SendOnce_retry_timeout(sender, outcome, n_retry, max_retry) ==
    IF sender \notin Senders
    THEN [k |-> "raise", kind |-> "TypeError", n |-> n_retry, called |-> FALSE]
    ELSE IF outcome = "ok"
    THEN [k |-> "return", kind |-> "sent", n |-> n_retry, called |-> TRUE]
    ELSE IF outcome \in {"RetryAfter", "TimedOut"}
    THEN IF n_retry + 1 < max_retry
         THEN [k |-> "retry", kind |-> outcome, n |-> n_retry + 1, called |-> TRUE]
         ELSE [k |-> "raise", kind |-> "ExceedMaxRetriesError", n |-> n_retry + 1,
               called |-> TRUE]
    ELSE [k |-> "raise", kind |-> RaisedType(sender, outcome), n |-> n_retry,
          called |-> TRUE]

\* One activation of sendMessage / sendPhoto / sendVideo / sendDocument up to
\* its return, its raise or its recursive call: k says which, n is the value
\* of n_retry it leaves, called whether the remote call was made.  Calling a
\* value that is no function raises TypeError.
SendOnce(sender, outcome, n_retry, max_retry) ==
    IF sender \notin Senders
    THEN [k |-> "raise", kind |-> "TypeError", n |-> n_retry, called |-> FALSE]
    ELSE IF outcome = "ok"
    THEN [k |-> "return", kind |-> "sent", n |-> n_retry, called |-> TRUE]
    ELSE IF outcome = "RetryAfter"
    THEN IF n_retry + 1 < max_retry
         THEN [k |-> "retry", kind |-> "RetryAfter", n |-> n_retry + 1, called |-> TRUE]
         ELSE [k |-> "raise", kind |-> "ExceedMaxRetriesError", n |-> n_retry + 1,
               called |-> TRUE]
    ELSE [k |-> "raise", kind |-> RaisedType(sender, outcome), n |-> n_retry,
          called |-> TRUE]

\* ------------------------------------------------------------------- sleeps
\* int(x) of a duration x >= 0, in ticks
IntPart(x) == (x \div TicksPerSecond) * TicksPerSecond

\* asyncio.sleep(b) of a bool b: True is 1 second, False is 0
BoolAsDelay(b) == IF b THEN TicksPerSecond ELSE 0

\* the sleep after a successful remote call that took sent_time:
\* sendMessage, sendPhoto and sendVideo sleep seconds - sent_time,
\* sendDocument sleeps (seconds < sent_time)
PacingSleep(sender, seconds, sent_time) ==
    IF sent_time < seconds
    THEN IF sender = "sendDocument"
         THEN BoolAsDelay(seconds < sent_time)
         ELSE seconds - sent_time
    ELSE 0

BackoffSleep_nofloor(retry_after, seconds) ==
    LET delay == Max(retry_after, seconds + TicksPerSecond)
    IN  IF delay > 0 THEN delay ELSE 0

\* the sleep before the retry of a rate-limited call:
\* delay = max(ra_err.retry_after, int(seconds) + 1), slept if delay > 0
BackoffSleep(retry_after, seconds) ==
    LET delay == Max(retry_after, IntPart(seconds) + TicksPerSecond)
    IN  IF delay > 0 THEN delay ELSE 0

\* the elapsed_seconds written into the message of the raised error: only the
\* TimedOut clause writes one
ElapsedInMessage(outcome, sent_time) ==
    IF outcome = "TimedOut" THEN {sent_time} ELSE {}

SleepOf_before_test(sender, r, seconds, sent_time, retry_after) ==
    CASE r.called /\ r.kind = "sent" -> PacingSleep(sender, seconds, sent_time)
      [] r.called /\ r.kind \in {"RetryAfter", "ExceedMaxRetriesError"} ->
             BackoffSleep(retry_after, seconds)
      [] OTHER -> 0

\* what one activation of a sender sleeps, r being its step result
SleepOf(sender, r, seconds, sent_time, retry_after) ==
    CASE r.called /\ r.kind = "sent" -> PacingSleep(sender, seconds, sent_time)
      [] r.called /\ r.k = "retry" -> BackoffSleep(retry_after, seconds)
      [] OTHER -> 0

broadcast_method_wrapper_reraise(r) == r

\* broadcast_method_wrapper: whatever the sender raises is returned as an
\* ErrorInformation
broadcast_method_wrapper(r) ==
    IF r.k = "raise" THEN [r EXCEPT !.k = "return"] ELSE r

\* ------------------------------------------------------------------ state
VARIABLES
    cfg,          \* the arguments of handle_broadcast
    pc,           \* where the broadcast call is
    method,       \* the sender handed to the strategy
    strategy,     \* the strategy class that executes
    exc,          \* the exception that left handle_broadcast ("none": none)
    idx,          \* position of the delivery / submission loop
    cidx,         \* position of the collection loop
    task,         \* per recipient: the delivery made to it
    ev,           \* the activation of a sender made by the latest step, if any
    futures,      \* the futures / ApplyResults, as the recipients submitted
    res_list,     \* result_list / res_list of the strategy
    sent_list,    \* returned pair, first list
    failed_list,  \* returned pair, second list
    cb_calls,     \* per recipient: invocations of success_callback
    total,        \* BroadcastStats summed by the caller
    n_combined,   \* how many stats were added into total
    log,          \* the text of the log file of write_sent_result
    calls,        \* the write_sent_result calls made, in call order
    clock,        \* time of the coordinator's event loop in a submission loop, in ticks
    sub_at,       \* the clock at each task submitted, as futures
    frames        \* the activations of a sender that calls itself, outermost first

logvars == <<log, calls>>

timevars == <<clock, sub_at>>

vars == <<cfg, pc, method, strategy, exc, idx, cidx, task, ev, futures, res_list,
          sent_list, failed_list, cb_calls, total, n_combined, log, calls,
          clock, sub_at, frames>>

Recipients == 1..MaxN

\* st: pending (not started / not submitted), queued, running, done.
\* n_retry and attempts are the live frame of a running delivery; how, kind
\* and fut are what it left: returned or raised, the result kind, and what
\* awaiting its future gives (pooled strategies). bot is the telegram.Bot
\* instance broadcast_method_wrapper made for it (0: none made).
NoTask ==
    [st |-> "pending", n_retry |-> 0, attempts |-> 0,
     how |-> "none", kind |-> "none", fut |-> "none", bot |-> 0]

NoEvent ==
    [rid |-> 0, outcome |-> "none", k |-> "none", kind |-> "none",
     attempts |-> 0, n |-> 0, seconds |-> 0, sent_time |-> 0, retry_after |-> 0,
     slept |-> 0, msg_elapsed |-> {}, msg_orig |-> FALSE]

\* zip(subscribers, content, caption) stops at the shortest
ZipLen == Min(cfg.n_sub, Min(cfg.content_len, cfg.caption_len))

\* os.cpu_count() of the host
CpuCount == cfg.cpu_count

UseNproc_noclamp == cfg.use_nproc

\* use_nproc after the clamp to os.cpu_count()
UseNproc == IF cfg.use_nproc > CpuCount THEN CpuCount ELSE cfg.use_nproc

Running == {i \in Recipients : task[i].st = "running"}

Queued == {i \in Recipients : task[i].st = "queued"}

\* use_nproc requested: one worker, and one more than the host has cores
NprocChoices(cpu_count) == {1, cpu_count + 1}

PooledArgs == {"ASYNCIO_MULTIPROCESSING_POOL", "ASYNCIO_PROCESS_POOL"}

Configs ==
    {c \in [n_sub : 1..MaxN, content_len : 0..MaxN, caption_len : 0..MaxN,
            max_retry : 0..MaxRetryCfg, seconds : 0..MaxSeconds,
            cpu_count : 1..MaxCpu, use_nproc : 1..(MaxCpu + 1), has_cb : BOOLEAN,
            strategy_arg : BroadcastStrategyType \cup {NotEnum},
            method_arg : BroadcastMethodType \cup {NotEnum}] :
        \* content and caption are a str (stretched to n_sub) or a list; at most
        \* one of the two is a list of another length
        /\ (c.content_len = c.n_sub \/ c.caption_len = c.n_sub)
        /\ c.use_nproc \in NprocChoices(c.cpu_count)
        \* use_nproc and the core count are read by the pooled strategies only
        /\ (c.strategy_arg \in {"ASYNCIO_SEQUENTIAL", NotEnum} =>
                c.use_nproc = 1 /\ c.cpu_count = 1)
        \* the pooled strategies are explored on the shorter lists
        /\ (c.strategy_arg \in PooledArgs => c.n_sub <= MaxPoolN)
        \* sendDocument and sendVideo repeat sendPhoto clause by clause: they
        \* are explored with one recipient
        /\ (c.method_arg \in {"DOCUMENT", "VIDEO"} => c.n_sub = 1)
        \* the timing of a delivery is explored on lists of one recipient
        /\ (c.n_sub > 1 => c.seconds = 0)}

\* the times a remote call can take, and the retry_after a RetryAfter carries
ElapsedChoices(outcome) ==
    IF cfg.n_sub = 1 /\ outcome \in {"ok", "TimedOut"} THEN 0..MaxElapsed ELSE {0}

RetryAfterChoices(outcome) ==
    IF outcome # "RetryAfter" THEN {0}
    ELSE IF cfg.n_sub = 1
    THEN {t * TicksPerSecond : t \in 0..MaxRetryAfter}
    ELSE {TicksPerSecond}

WorkerSeconds_configured == cfg.seconds

\* the seconds argument the pooled strategies hand to broadcast_method_wrapper
WorkerSeconds == 0

Init ==
    /\ cfg \in Configs
    /\ pc = "start"
    /\ method = "none"
    /\ strategy = "none"
    /\ exc = "none"
    /\ idx = 1
    /\ cidx = 1
    /\ task = [i \in Recipients |-> NoTask]
    /\ ev = NoEvent
    /\ futures = <<>>
    /\ res_list = <<>>
    /\ sent_list = <<>>
    /\ failed_list = <<>>
    /\ cb_calls = [i \in Recipients |-> 0]
    /\ total = BroadcastStats(0, 0, 0)
    /\ n_combined = 0
    /\ log = EmptyText
    /\ calls = <<>>
    /\ clock = 0
    /\ sub_at = <<>>
    /\ frames = <<>>

\* ------------------------------------------------------- handle_broadcast
EntryPc(s) ==
    CASE s = "AsyncSequential" -> "seq"
      [] s = "AsyncProcessPool" -> "pp"
      [] s = "AsyncMultiProcessingPool" -> "mp"
      [] OTHER -> "raised"

\* handle_broadcast up to the call of execute; broadcast_strategy() of a value
\* that is no class raises TypeError
HandleBroadcast ==
    /\ pc = "start"
    /\ UNCHANGED <<logvars, timevars, frames>>
    /\ method' = ResolveMethod(cfg.method_arg)
    /\ strategy' = ResolveStrategy(cfg.strategy_arg)
    /\ pc' = EntryPc(strategy')
    /\ exc' = IF strategy' \in Strategies THEN "none" ELSE "TypeError"
    /\ UNCHANGED <<cfg, idx, cidx, task, ev, futures, res_list, sent_list,
                   failed_list, cb_calls, total, n_combined>>

\* ------------------------------------------------------------ deliveries
TaskAfter_redeliver(t, r) ==
    IF r.k = "retry"
    THEN [t EXCEPT !.st = "running", !.n_retry = r.n,
                   !.attempts = IF r.called THEN @ + 1 ELSE @]
    ELSE IF r.kind = "ExceedMaxRetriesError"
    THEN [t EXCEPT !.st = "queued", !.n_retry = 0, !.attempts = 0]
    ELSE [t EXCEPT !.st = "done", !.n_retry = 0, !.attempts = 0,
                   !.how = IF r.k = "return" THEN "returned" ELSE "raised",
                   !.kind = r.kind,
                   !.fut = IF r.k = "raise" THEN "exception" ELSE "value"]

\* the task record after one activation of the sender with step result r
TaskAfter(t, r) ==
    IF r.k = "retry"
    THEN [t EXCEPT !.st = "running", !.n_retry = r.n,
                   !.attempts = IF r.called THEN @ + 1 ELSE @]
    ELSE [t EXCEPT !.st = "done", !.n_retry = 0, !.attempts = 0,
                   !.how = IF r.k = "return" THEN "returned" ELSE "raised",
                   !.kind = r.kind,
                   !.fut = IF r.k = "raise" THEN "exception" ELSE "value"]

EventOf(i, t, outcome, r, seconds, sent_time, retry_after) ==
    [rid |-> i, outcome |-> IF r.called THEN outcome ELSE "none", k |-> r.k,
     kind |-> r.kind, attempts |-> IF r.called THEN t.attempts + 1 ELSE t.attempts,
     n |-> r.n, seconds |-> seconds,
     sent_time |-> IF r.called THEN sent_time ELSE 0,
     retry_after |-> IF r.called THEN retry_after ELSE 0,
     slept |-> SleepOf(method, r, seconds, sent_time, retry_after),
     msg_elapsed |-> IF r.called /\ r.k # "retry" /\ r.kind # "sent"
                     THEN ElapsedInMessage(outcome, sent_time) ELSE {},
     msg_orig |-> r.called /\ r.k # "retry" /\ r.kind # "sent"
                     /\ MessageKept(method, outcome)]

\* whether an invocation of success_callback raises: only a callback that
\* exists can
CallbackFails == IF cfg.has_cb THEN BOOLEAN ELSE {FALSE}

\* -------------------------------------------------------- AsyncSequential
SeqCatch_none(kind) == FALSE

\* except Exception as error: every exception modelled here is an Exception
SeqCatch(kind) == TRUE

SeqCallback_skipped(invoked, i) == invoked

\* if success_callback: await success_callback(telegram_id)
SeqCallback(invoked, i) ==
    IF cfg.has_cb THEN [invoked EXCEPT ![i] = @ + 1] ELSE invoked

AwaitDone_eager(r) == TRUE

\* await method(...) is over when the sender returned or raised; a sender that
\* calls itself again is still awaited
AwaitDone(r) == r.k # "retry"

\* One turn of the loop of AsyncSequential.execute, cut at the remote call: a
\* rate-limited call that is retried stays in the same turn.
SeqDeliver ==
    /\ pc = "seq"
    /\ UNCHANGED <<logvars, timevars, frames>>
    /\ idx <= ZipLen
    /\ \E outcome \in RemoteOutcomes :
       \E sent_time \in ElapsedChoices(outcome) :
       \E retry_after \in RetryAfterChoices(outcome) :
         LET i == idx
             r == SendOnce(method, outcome, task[i].n_retry, cfg.max_retry)
             ok == JobResponse(i, Elem(i), Artifact(i))
         IN  /\ task' = [task EXCEPT ![i] = TaskAfter(@, r)]
             /\ ev' = EventOf(i, task[i], outcome, r, cfg.seconds, sent_time,
                              retry_after)
             /\ CASE ~AwaitDone(r) ->
                       /\ UNCHANGED <<idx, res_list, cb_calls, pc, exc>>
                  [] r.k = "return" ->
                       \E cb_fails \in CallbackFails :
                         /\ cb_calls' = SeqCallback(cb_calls, i)
                         /\ IF cb_fails /\ ~SeqCatch("CallbackError")
                            THEN /\ res_list' = Append(res_list, ok)
                                 /\ pc' = "raised"
                                 /\ exc' = "CallbackError"
                                 /\ UNCHANGED idx
                            ELSE /\ res_list' =
                                      IF cb_fails
                                      THEN res_list \o
                                           <<ok, JobResponse(i, Elem(i),
                                                   ErrorInformation("CallbackError", i))>>
                                      ELSE Append(res_list, ok)
                                 /\ idx' = idx + 1
                                 /\ UNCHANGED <<pc, exc>>
                  [] OTHER ->
                       /\ UNCHANGED cb_calls
                       /\ IF SeqCatch(r.kind)
                          THEN /\ res_list' = Append(res_list,
                                    JobResponse(i, Elem(i), ErrorInformation(r.kind, i)))
                               /\ idx' = idx + 1
                               /\ UNCHANGED <<pc, exc>>
                          ELSE /\ pc' = "raised"
                               /\ exc' = r.kind
                               /\ UNCHANGED <<idx, res_list>>
    /\ UNCHANGED <<cfg, method, strategy, cidx, futures, sent_list, failed_list,
                   total, n_combined>>

\* after the loop: separate_result_list and return
SeqReturn ==
    /\ pc = "seq"
    /\ UNCHANGED <<logvars, timevars, frames>>
    /\ idx > ZipLen
    /\ sent_list' = separate_result_list(res_list)[1]
    /\ failed_list' = separate_result_list(res_list)[2]
    /\ pc' = "done"
    /\ ev' = NoEvent
    /\ UNCHANGED <<cfg, method, strategy, exc, idx, cidx, task, futures,
                   res_list, cb_calls, total, n_combined>>

\* ---------------------------------------------------- the worker processes
WorkerFree_always == TRUE

\* the pool has use_nproc worker processes, each runs one task at a time
WorkerFree == Cardinality(Running) < UseNproc

NewBot_shared == 1 + Cardinality({i \in Recipients : FALSE})

\* my_bot = telegram.Bot(token=bot_token): an instance no call made before
NewBot == 1 + Cardinality({i \in Recipients : task[i].bot # 0})

\* A free worker takes the oldest queued task (both pools queue FIFO) and
\* enters broadcast_method_wrapper.
WorkerStart ==
    /\ pc \in {"pp", "mp"}
    /\ UNCHANGED <<logvars, timevars, frames>>
    /\ Queued # {}
    /\ WorkerFree
    /\ LET i == CHOOSE q \in Queued : \A o \in Queued : q <= o
       IN  task' = [task EXCEPT ![i].st = "running", ![i].bot = NewBot]
    /\ ev' = NoEvent
    /\ UNCHANGED <<cfg, pc, method, strategy, exc, idx, cidx, futures, res_list,
                   sent_list, failed_list, cb_calls, total, n_combined>>

\* One activation of the sender inside broadcast_method_wrapper, in a worker.
WorkerAttempt(i) ==
    /\ pc \in {"pp", "mp"}
    /\ UNCHANGED <<logvars, timevars, frames>>
    /\ task[i].st = "running"
    /\ \E outcome \in RemoteOutcomes :
       \E sent_time \in ElapsedChoices(outcome) :
       \E retry_after \in RetryAfterChoices(outcome) :
         LET r == broadcast_method_wrapper(
                      SendOnce(method, outcome, task[i].n_retry, cfg.max_retry))
         IN  /\ task' = [task EXCEPT ![i] = TaskAfter(@, r)]
             /\ ev' = EventOf(i, task[i], outcome, r, WorkerSeconds, sent_time,
                              retry_after)
    /\ UNCHANGED <<cfg, pc, method, strategy, exc, idx, cidx, futures, res_list,
                   sent_list, failed_list, cb_calls, total, n_combined>>

\* the exception awaiting a failed future raises
FutureError(t) == t.kind

AwaitedFuture_reversed(k) == futures[Len(futures) + 1 - k]

\* the future the k-th turn of a collection loop waits for: the loops walk
\* futures / results from the first submitted on
AwaitedFuture(k) == futures[k]

\* What one turn of a collection loop puts into res_list: rid is the
\* recipient the turn names, f the recipient the future was submitted for,
\* k the turn (content[k] is its _payload), payload the payload field the
\* try branch records.
Collected(rid, f, k, payload, cb_fails) ==
    IF task[f].fut = "exception"
    THEN <<JobResponse(rid, Elem(k), ErrorInformation(FutureError(task[f]), f))>>
    ELSE LET result == [kind |-> task[f].kind, to |-> f]
         IN  IF IsErrorInformation(result) \/ ~cb_fails
             THEN <<JobResponse(rid, payload, result)>>
             ELSE <<JobResponse(rid, payload, result),
                    JobResponse(rid, Elem(k), ErrorInformation("CallbackError", rid))>>

CallbackRuns(f) ==
    cfg.has_cb /\ task[f].fut = "value" /\ task[f].kind = "sent"

\* ------------------------------------------- the pacing of submissions
SubmitSleep_none(seconds) == 0

\* if seconds > 0: await asyncio.sleep(seconds), after a task was submitted
SubmitSleep(seconds) == IF seconds > 0 THEN seconds ELSE 0

\* how much later than asked asyncio.sleep returns: the event loop is late
\* on the lists that are paced
LatencyChoices ==
    IF cfg.seconds > 0 /\ cfg.n_sub > 1 THEN 0..MaxLatency ELSE {0}

\* ------------------------------------------------------- AsyncProcessPool
\* a ProcessPoolExecutor one of whose worker processes died is broken
PoolBroken ==
    strategy = "AsyncProcessPool" /\ \E i \in Recipients : task[i].how = "died"

\* loop.run_in_executor may raise; on a broken pool it always raises
SubmitChoices == IF PoolBroken THEN {FALSE} ELSE BOOLEAN

SubmitErrorKind == IF PoolBroken THEN "BrokenProcessPool" ELSE "SubmitError"

\* One turn of the submission loop.
PPSubmit ==
    /\ pc = "pp"
    /\ UNCHANGED <<logvars, frames>>
    /\ idx <= ZipLen
    /\ \E submitted \in SubmitChoices :
         IF submitted
         THEN /\ futures' = Append(futures, idx)
              /\ task' = [task EXCEPT ![idx].st = "queued"]
              /\ sub_at' = Append(sub_at, clock)
              /\ \E late \in LatencyChoices :
                    clock' = clock + SubmitSleep(cfg.seconds)
                             + (IF cfg.seconds > 0 THEN late ELSE 0)
              /\ UNCHANGED res_list
         ELSE /\ res_list' = Append(res_list,
                   JobResponse(idx, Elem(idx), ErrorInformation(SubmitErrorKind, idx)))
              /\ UNCHANGED <<futures, task, timevars>>
    /\ idx' = idx + 1
    /\ ev' = NoEvent
    /\ UNCHANGED <<cfg, pc, method, strategy, exc, cidx, sent_list, failed_list,
                   cb_calls, total, n_combined>>

\* zip(futures, subscribers, content)
PPZipLen == Min(Len(futures), Min(cfg.n_sub, cfg.content_len))

\* the recipient the k-th turn of the collection loop names
PPRecipient(k) == k

\* One turn of the collection loop: await future, record, callback.
PPCollect ==
    /\ pc = "pp"
    /\ UNCHANGED <<logvars, timevars, frames>>
    /\ idx > ZipLen
    /\ cidx <= PPZipLen
    /\ task[AwaitedFuture(cidx)].st = "done"
    /\ \E cb_fails \in (IF CallbackRuns(AwaitedFuture(cidx)) THEN BOOLEAN ELSE {FALSE}) :
         LET f == AwaitedFuture(cidx)
             rid == PPRecipient(cidx)
         IN  /\ res_list' = res_list \o Collected(rid, f, cidx, Whole, cb_fails)
             /\ cb_calls' = IF CallbackRuns(f)
                            THEN [cb_calls EXCEPT ![rid] = @ + 1]
                            ELSE cb_calls
    /\ cidx' = cidx + 1
    /\ ev' = NoEvent
    /\ UNCHANGED <<cfg, pc, method, strategy, exc, idx, task, futures, sent_list,
                   failed_list, total, n_combined>>

PPReturn ==
    /\ pc = "pp"
    /\ UNCHANGED <<logvars, timevars, frames>>
    /\ idx > ZipLen
    /\ cidx > PPZipLen
    /\ sent_list' = separate_result_queue(res_list)[1]
    /\ failed_list' = separate_result_queue(res_list)[2]
    /\ pc' = "done"
    /\ ev' = NoEvent
    /\ UNCHANGED <<cfg, method, strategy, exc, idx, cidx, task, futures,
                   res_list, cb_calls, total, n_combined>>

\* ----------------------------------------------- AsyncMultiProcessingPool
\* One turn of the submission loop: pool.apply_async queues the task.
MPSubmit ==
    /\ pc = "mp"
    /\ UNCHANGED <<logvars, frames>>
    /\ idx <= ZipLen
    /\ futures' = Append(futures, idx)
    /\ task' = [task EXCEPT ![idx].st = "queued"]
    /\ sub_at' = Append(sub_at, clock)
    /\ \E late \in LatencyChoices :
          clock' = clock + SubmitSleep(cfg.seconds)
                   + (IF cfg.seconds > 0 THEN late ELSE 0)
    /\ idx' = idx + 1
    /\ ev' = NoEvent
    /\ UNCHANGED <<cfg, pc, method, strategy, exc, cidx, res_list, sent_list,
                   failed_list, cb_calls, total, n_combined>>

PoolDrained_nowait == TRUE

\* pool.join() returns once every submitted task has finished
PoolDrained == \A k \in 1..Len(futures) : task[futures[k]].st = "done"

\* pool.close(); pool.join()
MPJoin ==
    /\ pc = "mp"
    /\ UNCHANGED <<logvars, timevars, frames>>
    /\ idx > ZipLen
    /\ PoolDrained
    /\ pc' = "mp_collect"
    /\ ev' = NoEvent
    /\ UNCHANGED <<cfg, method, strategy, exc, idx, cidx, task, futures,
                   res_list, sent_list, failed_list, cb_calls, total, n_combined>>

\* zip(results, content)
MPZipLen == Min(Len(futures), cfg.content_len)

\* One turn of the collection loop: result.get(), record, callback.
MPCollect ==
    /\ pc = "mp_collect"
    /\ UNCHANGED <<logvars, timevars, frames>>
    /\ cidx <= MPZipLen
    /\ \E cb_fails \in (IF CallbackRuns(AwaitedFuture(cidx)) THEN BOOLEAN ELSE {FALSE}) :
         LET f == AwaitedFuture(cidx)
         IN  /\ res_list' = res_list \o Collected(f, f, cidx, Elem(cidx), cb_fails)
             /\ cb_calls' = IF CallbackRuns(f)
                            THEN [cb_calls EXCEPT ![f] = @ + 1]
                            ELSE cb_calls
    /\ cidx' = cidx + 1
    /\ ev' = NoEvent
    /\ UNCHANGED <<cfg, pc, method, strategy, exc, idx, task, futures, sent_list,
                   failed_list, total, n_combined>>

MPReturn ==
    /\ pc = "mp_collect"
    /\ UNCHANGED <<logvars, timevars, frames>>
    /\ cidx > MPZipLen
    /\ sent_list' = separate_result_queue(res_list)[1]
    /\ failed_list' = separate_result_queue(res_list)[2]
    /\ pc' = "done"
    /\ ev' = NoEvent
    /\ UNCHANGED <<cfg, method, strategy, exc, idx, cidx, task, futures,
                   res_list, cb_calls, total, n_combined>>

\* ------------------------------------------------------------- the caller
\* stats = evaluate_broadcast_stats(sent, failed); total = total + stats
CombineStats ==
    /\ pc = "done"
    /\ UNCHANGED <<logvars, timevars, frames>>
    /\ n_combined < MaxCombine
    /\ total' = StatsAdd(total, evaluate_broadcast_stats(sent_list, failed_list))
    /\ n_combined' = n_combined + 1
    /\ ev' = NoEvent
    /\ UNCHANGED <<cfg, pc, method, strategy, exc, idx, cidx, task, futures,
                   res_list, sent_list, failed_list, cb_calls>>

Next ==
    \/ HandleBroadcast
    \/ SeqDeliver
    \/ SeqReturn
    \/ WorkerStart
    \/ \E i \in Recipients : WorkerAttempt(i)
    \/ PPSubmit
    \/ PPCollect
    \/ PPReturn
    \/ MPSubmit
    \/ MPJoin
    \/ MPCollect
    \/ MPReturn
    \/ CombineStats

Spec == Init /\ [][Next]_vars

\* the event loop and the worker processes keep running, and every remote
\* call returns or raises: a step that can be taken is taken
SpecFair == Init /\ [][Next]_vars /\ WF_vars(Next)

\* ------------------------------------------------- the log file, by itself
\* the job response lists handed to write_sent_result: a success, a failure,
\* and a response whose payload field is the content list
LogResponses ==
    {JobResponse(1, Elem(1), Artifact(1)),
     JobResponse(2, Elem(2), ErrorInformation("TimedOut", 2)),
     JobResponse(1, Whole, Artifact(1))}

LogLists ==
    UNION {[1..n -> LogResponses] : n \in 0..MaxLogList}

\* a caller that only writes the log; content_lines is the number of lines of
\* a content element
InitLog ==
    /\ cfg \in [content_lines : 1..MaxLines]
    /\ pc = "log"
    /\ method = "none"
    /\ strategy = "none"
    /\ exc = "none"
    /\ idx = 1
    /\ cidx = 1
    /\ task = [i \in Recipients |-> NoTask]
    /\ ev = NoEvent
    /\ futures = <<>>
    /\ res_list = <<>>
    /\ sent_list = <<>>
    /\ failed_list = <<>>
    /\ cb_calls = [i \in Recipients |-> 0]
    /\ total = BroadcastStats(0, 0, 0)
    /\ n_combined = 0
    /\ log = EmptyText
    /\ calls = <<>>
    /\ clock = 0
    /\ sub_at = <<>>
    /\ frames = <<>>

\* write_sent_result(log_sheet_path, job_response_list, payload)
WriteSentResult ==
    /\ pc = "log"
    /\ Len(calls) < MaxWrites
    /\ \E job_response_list \in LogLists :
         LET payload == Elem(1)
         IN  /\ log' = write_sent_result(log, job_response_list, payload,
                                         cfg.content_lines)
             /\ calls' = Append(calls, [list |-> job_response_list,
                                        payload |-> payload])
    /\ UNCHANGED <<cfg, pc, method, strategy, exc, idx, cidx, task, ev, futures,
                   res_list, sent_list, failed_list, cb_calls, total, n_combined>>
    /\ UNCHANGED <<timevars, frames>>

NextLog == WriteSentResult

SpecLog == InitLog /\ [][NextLog]_vars

\* --------------------------------------------- the pooled strategies, paced
\* broadcasts of a pooled strategy to MaxPoolN recipients with a pacing delay
PacedConfigs ==
    {c \in [n_sub : {MaxPoolN}, content_len : {MaxPoolN}, caption_len : {MaxPoolN},
            max_retry : {1}, seconds : 0..MaxSeconds,
            cpu_count : 1..MaxCpu, use_nproc : 1..(MaxCpu + 1), has_cb : BOOLEAN,
            strategy_arg : PooledArgs, method_arg : {"TEXT"}] :
        c.use_nproc \in NprocChoices(c.cpu_count)}

InitPaced ==
    /\ cfg \in PacedConfigs
    /\ pc = "start"
    /\ method = "none"
    /\ strategy = "none"
    /\ exc = "none"
    /\ idx = 1
    /\ cidx = 1
    /\ task = [i \in Recipients |-> NoTask]
    /\ ev = NoEvent
    /\ futures = <<>>
    /\ res_list = <<>>
    /\ sent_list = <<>>
    /\ failed_list = <<>>
    /\ cb_calls = [i \in Recipients |-> 0]
    /\ total = BroadcastStats(0, 0, 0)
    /\ n_combined = 0
    /\ log = EmptyText
    /\ calls = <<>>
    /\ clock = 0
    /\ sub_at = <<>>
    /\ frames = <<>>

NextPaced ==
    \/ HandleBroadcast
    \/ WorkerStart
    \/ \E i \in Recipients : WorkerAttempt(i)
    \/ PPSubmit
    \/ PPCollect
    \/ PPReturn
    \/ MPSubmit
    \/ MPJoin
    \/ MPCollect
    \/ MPReturn

SpecPaced == InitPaced /\ [][NextPaced]_vars

\* ------------------------------------- the pooled strategies, workers dying
\* the future of a task the broken ProcessPoolExecutor gave up: awaiting it
\* raises BrokenProcessPool
BrokenFuture(t, how) ==
    [t EXCEPT !.st = "done", !.n_retry = 0, !.attempts = 0, !.how = how,
              !.kind = "BrokenProcessPool", !.fut = "exception"]

\* the ApplyResult of a task whose worker died is never set
LostResult(t) == [t EXCEPT !.st = "lost", !.how = "died"]

\* what the pool makes of its tasks when the worker running task i dies:
\* ProcessPoolExecutor fails every unfinished future, multiprocessing.Pool
\* replaces the worker and forgets the task
TasksAfterDeath(i) ==
    IF strategy = "AsyncProcessPool"
    THEN [j \in Recipients |->
             IF j = i THEN BrokenFuture(task[j], "died")
             ELSE IF task[j].st \in {"queued", "running"}
             THEN BrokenFuture(task[j], "broken")
             ELSE task[j]]
    ELSE [task EXCEPT ![i] = LostResult(@)]

\* the worker process running the delivery of recipient i is killed
WorkerDies(i) ==
    /\ pc \in {"pp", "mp"}
    /\ UNCHANGED <<logvars, timevars, frames>>
    /\ task[i].st = "running"
    /\ task' = TasksAfterDeath(i)
    /\ ev' = NoEvent
    /\ UNCHANGED <<cfg, pc, method, strategy, exc, idx, cidx, futures, res_list,
                   sent_list, failed_list, cb_calls, total, n_combined>>

NextCrash ==
    \/ HandleBroadcast
    \/ WorkerStart
    \/ \E i \in Recipients : WorkerAttempt(i)
    \/ \E i \in Recipients : WorkerDies(i)
    \/ PPSubmit
    \/ PPCollect
    \/ PPReturn
    \/ MPSubmit
    \/ MPJoin
    \/ MPCollect
    \/ MPReturn

\* the coordinator and the worker processes keep running: a step that can be
\* taken is taken
SpecCrash == InitPaced /\ [][NextCrash]_vars /\ WF_vars(NextCrash)

\* ------------------------------------------------ one delivery, by itself
\* the n_retry argument of the first activation: the strategies pass 0,
\* get_file_id passes seconds (a count of whole seconds here)
StartCounter(caller, seconds) ==
    IF caller = "get_file_id" THEN seconds \div TicksPerSecond ELSE 0

\* the arguments of the first activation of the sender
FirstCall(caller, seconds, max_retry) ==
    [target_id |-> 1, payload |-> Elem(1), caption |-> "caption",
     seconds |-> seconds, n_retry |-> StartCounter(caller, seconds),
     max_retry |-> max_retry]

RetryCall_restart(frame, n_retry) == frame

\* sendX(bot, target_id, payload, caption, seconds, n_retry, max_retry) of
\* the except RetryAfter clause
RetryCall(frame, n_retry) == [frame EXCEPT !.n_retry = n_retry]

ThroughFrame_recaught(sender, t) ==
    IF t.how = "raised" THEN [t EXCEPT !.kind = RaisedType(sender, @)] ELSE t

\* return await sendX(...) stands in the handler of except RetryAfter and
\* not in the try body: what the inner activation returns is returned, and
\* what it raises meets no except clause of the activation it passes
ThroughFrame(sender, t) == t

\* the activation that runs
Top == frames[Len(frames)]

\* the least max_retry a sender is called with
MinRetryCfg == 0 - MaxNegRetry

\* a sender called by a strategy or by get_file_id, with a max_retry of any
\* sign; get_file_id is called with a pacing of whole seconds
OneConfigs ==
    {c \in [caller : {"strategy", "get_file_id"}, method_arg : BroadcastMethodType,
            max_retry : MinRetryCfg..MaxRetryCfg, seconds : 0..MaxSeconds,
            n_sub : {1}] :
        c.caller = "get_file_id" => c.seconds % TicksPerSecond = 0}

InitOne ==
    /\ cfg \in OneConfigs
    /\ pc = "one_call"
    /\ method = "none"
    /\ strategy = "none"
    /\ exc = "none"
    /\ idx = 1
    /\ cidx = 1
    /\ task = [i \in Recipients |-> NoTask]
    /\ ev = NoEvent
    /\ futures = <<>>
    /\ res_list = <<>>
    /\ sent_list = <<>>
    /\ failed_list = <<>>
    /\ cb_calls = [i \in Recipients |-> 0]
    /\ total = BroadcastStats(0, 0, 0)
    /\ n_combined = 0
    /\ log = EmptyText
    /\ calls = <<>>
    /\ clock = 0
    /\ sub_at = <<>>
    /\ frames = <<>>

\* await method(bot, telegram_id, _payload, _caption, seconds, 0, max_retry)
\* of a strategy, or
\* await broadcast_method(bot, dummy_user, payload, caption, seconds, seconds,
\* max_retry) of get_file_id
OneCall ==
    /\ pc = "one_call"
    /\ method' = select_broadcast_method(cfg.method_arg)
    /\ frames' = <<FirstCall(cfg.caller, cfg.seconds, cfg.max_retry)>>
    /\ task' = [task EXCEPT ![1].st = "running",
                            ![1].n_retry = frames'[1].n_retry]
    /\ pc' = "one_run"
    /\ UNCHANGED <<cfg, strategy, exc, idx, cidx, ev, futures, res_list,
                   sent_list, failed_list, cb_calls, total, n_combined>>
    /\ UNCHANGED <<logvars, timevars>>

\* the top activation makes its remote call and returns, raises, or sleeps
\* and calls the sender again
OneAttempt ==
    /\ pc = "one_run"
    /\ \E outcome \in RemoteOutcomes :
       \E sent_time \in ElapsedChoices(outcome) :
       \E retry_after \in RetryAfterChoices(outcome) :
         LET r == SendOnce(method, outcome, Top.n_retry, Top.max_retry)
         IN  /\ task' = [task EXCEPT ![1] = TaskAfter(@, r)]
             /\ ev' = EventOf(Top.target_id, task[1], outcome, r, Top.seconds,
                              sent_time, retry_after)
             /\ IF AwaitDone(r)
                THEN pc' = "one_unwind" /\ UNCHANGED frames
                ELSE pc' = pc /\ frames' = Append(frames, RetryCall(Top, r.n))
    /\ UNCHANGED <<cfg, method, strategy, exc, idx, cidx, futures, res_list,
                   sent_list, failed_list, cb_calls, total, n_combined>>
    /\ UNCHANGED <<logvars, timevars>>

\* the result leaves the innermost activation and reaches the one that
\* called it
OneUnwind ==
    /\ pc = "one_unwind"
    /\ Len(frames) > 1
    /\ frames' = SubSeq(frames, 1, Len(frames) - 1)
    /\ task' = [task EXCEPT ![1] = ThroughFrame(method, @)]
    /\ UNCHANGED <<cfg, pc, method, strategy, exc, idx, cidx, ev, futures,
                   res_list, sent_list, failed_list, cb_calls, total, n_combined>>
    /\ UNCHANGED <<logvars, timevars>>

\* the result reaches the caller; get_file_id sleeps seconds after a result
\* and lets an exception pass
OneReturn ==
    /\ pc = "one_unwind"
    /\ Len(frames) = 1
    /\ frames' = <<>>
    /\ pc' = "one_end"
    /\ exc' = IF task[1].how = "raised" THEN task[1].kind ELSE "none"
    /\ clock' = IF cfg.caller = "get_file_id" /\ task[1].how = "returned"
                   /\ cfg.seconds > 0
                THEN clock + cfg.seconds ELSE clock
    /\ UNCHANGED <<cfg, method, strategy, idx, cidx, task, ev, futures, res_list,
                   sent_list, failed_list, cb_calls, total, n_combined, sub_at>>
    /\ UNCHANGED logvars

NextOne ==
    \/ OneCall
    \/ OneAttempt
    \/ OneUnwind
    \/ OneReturn

SpecOne == InitOne /\ [][NextOne]_vars

\* ================================================================ claims
Count(list, i) ==
    Cardinality({k \in 1..Len(list) : list[k].telegram_id = i})

Ids(list) == [k \in 1..Len(list) |-> list[k].telegram_id]

StrictlyIncreasing(s) == \A a, b \in 1..Len(s) : a < b => s[a] < s[b]

LengthsMatch == cfg.content_len = cfg.n_sub /\ cfg.caption_len = cfg.n_sub

ValidIdentifiers ==
    cfg.strategy_arg \in BroadcastStrategyType /\ cfg.method_arg \in BroadcastMethodType

PooledStrategies == {"AsyncProcessPool", "AsyncMultiProcessingPool"}

\* C1 (as claimed): after execute returns, every input recipient appears
\* exactly once in succeeded and failed together: none lost, none duplicated,
\* none in both.  Stated for content and caption of the recipients' length.
C1_EveryRecipientExactlyOnce ==
    (pc = "done" /\ LengthsMatch) =>
        \A i \in 1..cfg.n_sub : Count(sent_list, i) + Count(failed_list, i) = 1

\* C2: no exception leaves a broadcast whose strategy has started: the only
\* exception that leaves handle_broadcast is the TypeError of a strategy
\* value that cannot be called, raised before any submission, delivery,
\* collection or callback.
C2_NoRaiseForPartialFailure ==
    pc = "raised" =>
        /\ exc = "TypeError"
        /\ strategy \notin Strategies
        /\ res_list = <<>> /\ futures = <<>>
        /\ \A i \in Recipients : task[i] = NoTask /\ cb_calls[i] = 0

\* a broadcast that returned its pair although a delivery failed and a
\* success callback raised
C2_Witness ==
    /\ pc = "done"
    /\ sent_list # <<>>
    /\ \E k \in 1..Len(failed_list) : failed_list[k].result.kind = "CallbackError"
    /\ \E k \in 1..Len(failed_list) : failed_list[k].result.kind = "TimedOut"

\* C3 (as claimed): with max_retry = k a delivery rate-limited on every
\* attempt makes at most k attempts, and the k-th rate-limit ends it with
\* ExceedMaxRetriesError.
C3_AtMostKAttempts ==
    (ev.outcome = "RetryAfter" /\ ev.n = ev.attempts) =>
        /\ ev.attempts <= cfg.max_retry
        /\ (ev.attempts = cfg.max_retry =>
                ev.k # "retry" /\ ev.kind = "ExceedMaxRetriesError")

\* C3 (amended): with max_retry = k >= 0 a delivery rate-limited on every
\* attempt makes exactly max(1, k) attempts: every rate-limited attempt
\* before the max(1, k)-th is retried, and the max(1, k)-th ends the delivery
\* with ExceedMaxRetriesError instead of a further retry.
C3_RetryBound ==
    ev.outcome = "RetryAfter" =>
        /\ ev.n = ev.attempts
        /\ ev.attempts <= Max(1, cfg.max_retry)
        /\ (ev.attempts < Max(1, cfg.max_retry) => ev.k = "retry")
        /\ (ev.attempts = Max(1, cfg.max_retry) =>
                /\ ev.k # "retry"
                /\ ev.kind = "ExceedMaxRetriesError"
                /\ task[ev.rid].st = "done"
                /\ task[ev.rid].kind = "ExceedMaxRetriesError")

\* the third rate-limit in a row with max_retry = 3 ends the delivery
C3_Witness ==
    /\ cfg.max_retry = 3
    /\ ev.outcome = "RetryAfter"
    /\ ev.attempts = 3
    /\ ev.kind = "ExceedMaxRetriesError"

\* C4: a delivery rate-limited j < max_retry times in a row is retried each
\* time, and when the next call succeeds it returns Success after exactly
\* j + 1 remote attempts.
C4_SuccessAfterRetries ==
    /\ (ev.outcome = "RetryAfter" /\ ev.n < cfg.max_retry) => ev.k = "retry"
    /\ ev.outcome = "ok" =>
           /\ ev.k = "return" /\ ev.kind = "sent"
           /\ ev.n < Max(1, cfg.max_retry)
           /\ ev.attempts = ev.n + 1
           /\ task[ev.rid].st = "done" /\ task[ev.rid].kind = "sent"

\* rate-limited twice, then success, with max_retry = 3: three attempts
C4_Witness ==
    /\ cfg.max_retry = 3
    /\ ev.outcome = "ok" /\ ev.kind = "sent"
    /\ ev.n = 2 /\ ev.attempts = 3

\* C5: AsyncSequential returns succeeded and failed each in the relative
\* order of the input; when no delivery fails, succeeded is the input order
\* itself, failed is empty and the stats are (n, n, 0).
C5_SequentialKeepsInputOrder ==
    (pc = "done" /\ strategy = "AsyncSequential") =>
        /\ StrictlyIncreasing(Ids(sent_list))
        /\ StrictlyIncreasing(Ids(failed_list))
        /\ (failed_list = <<>> =>
                /\ Ids(sent_list) = [k \in 1..ZipLen |-> k]
                /\ evaluate_broadcast_stats(sent_list, failed_list)
                       = BroadcastStats(ZipLen, ZipLen, 0))

\* three recipients, all succeed: three entries and stats (3, 3, 0)
C5_Witness ==
    /\ pc = "done" /\ strategy = "AsyncSequential"
    /\ cfg.n_sub = 3
    /\ Ids(sent_list) = <<1, 2, 3>> /\ failed_list = <<>>
    /\ total = BroadcastStats(3, 3, 0)

\* C6 (as claimed): with a content or caption list of another length than
\* the recipients the call fails before any delivery: nothing is attempted,
\* submitted or recorded, and no pair is returned.
C6_LengthMismatchFailsFast ==
    (ValidIdentifiers /\ ~LengthsMatch) =>
        /\ pc # "done"
        /\ res_list = <<>> /\ futures = <<>>
        /\ \A i \in Recipients : task[i] = NoTask

\* C7 (as claimed): the identifiers map to distinct implementations, and a
\* strategy or sender value that is no identifier makes the call fail before
\* any delivery: it is not passed through, nothing is recorded or submitted
\* and no pair is returned.
C7_InvalidIdentifierRejected ==
    /\ \A a, b \in BroadcastStrategyType :
           a # b => select_broadcast_strategy(a) # select_broadcast_strategy(b)
    /\ \A a, b \in BroadcastMethodType :
           a # b => select_broadcast_method(a) # select_broadcast_method(b)
    /\ ~ValidIdentifiers =>
           /\ pc # "done"
           /\ res_list = <<>> /\ futures = <<>>

\* C8 (as claimed): no delivery hands its outcome to the strategy by raising.
C8_DeliveryNeverRaises ==
    \A i \in Recipients : task[i].how # "raised"

\* C8 (amended): in the pooled strategies a delivery (broadcast_method_wrapper
\* around the sender) returns an ErrorInformation for every failing outcome
\* and never raises; in AsyncSequential the sender is called directly and
\* every failing outcome is raised to the strategy, which catches it and
\* records a Failure JobResponse of that error type for the recipient.
C8_RaisesOnlyInSequential ==
    \A i \in Recipients :
        task[i].st = "done" =>
            IF strategy \in PooledStrategies
            THEN task[i].how = "returned" /\ task[i].fut = "value"
            ELSE /\ (task[i].how = "raised") = (task[i].kind # "sent")
                 /\ (task[i].kind # "sent" =>
                        \E k \in 1..Len(res_list) :
                            res_list[k] = JobResponse(i, Elem(i),
                                              ErrorInformation(task[i].kind, i)))

\* a pooled delivery that timed out and one whose retries ran out, both
\* handed back as values
C8_Witness ==
    /\ strategy \in PooledStrategies
    /\ \E i, j \in Recipients :
         /\ task[i].st = "done" /\ task[i].kind = "TimedOut"
         /\ task[i].how = "returned"
         /\ task[j].st = "done" /\ task[j].kind = "ExceedMaxRetriesError"
         /\ task[j].how = "returned"

\* C9 (as claimed): a failure for one recipient never aborts the batch: when
\* the broadcast returns, every recipient has a JobResponse, and a recipient
\* whose delivery failed has a Failure JobResponse.
C9_FailureNeverAbortsBatch ==
    (pc = "done" /\ LengthsMatch) =>
        \A i \in 1..cfg.n_sub :
            /\ \E k \in 1..Len(res_list) : res_list[k].telegram_id = i
            /\ (task[i].st = "done" /\ task[i].kind # "sent") =>
                   \E k \in 1..Len(failed_list) : failed_list[k].telegram_id = i

\* C10: evaluate_broadcast_stats gives n_success = |succeeded|, n_failure =
\* |failed| and n_job = n_success + n_failure, and n_job = n_success +
\* n_failure holds of every sum of such stats.
C10_StatsInvariant ==
    LET s == evaluate_broadcast_stats(sent_list, failed_list)
        next_total == StatsAdd(total, s)
    IN  /\ s.n_success = Len(sent_list)
        /\ s.n_failure = Len(failed_list)
        /\ s.n_job = s.n_success + s.n_failure
        /\ total.n_job = total.n_success + total.n_failure
        /\ next_total.n_job = next_total.n_success + next_total.n_failure
        /\ total.n_success = n_combined * Len(sent_list)
        /\ total.n_failure = n_combined * Len(failed_list)

\* stats of a mixed result added twice
C10_Witness ==
    /\ n_combined = 2
    /\ Len(sent_list) >= 1 /\ Len(failed_list) >= 1
    /\ total.n_job = 2 * (Len(sent_list) + Len(failed_list))

\* the positions of s whose result is (failed = TRUE) or is not an
\* ErrorInformation
KeptIndices(s, failed) ==
    {k \in 1..Len(s) : (s[k].result.kind # "sent") = failed}

\* the j-th smallest member of a set of positions
NthOf(S, j) == CHOOSE k \in S : Cardinality({m \in S : m <= k}) = j

\* out is exactly the responses of s at the kept positions, in their order
IsStablePart(out, s, failed) ==
    /\ Len(out) = Cardinality(KeptIndices(s, failed))
    /\ \A j \in 1..Len(out) : out[j] = s[NthOf(KeptIndices(s, failed), j)]

\* C11: separate_result_list and separate_result_queue are a stable
\* partition of the responses: every response lands in exactly one of
\* (succeeded, failed), the sizes add up to the number of responses, each
\* output keeps the input's relative order, and a response is in failed
\* exactly when its result is an ErrorInformation, of whatever error kind.
C11_StablePartition ==
    LET l == separate_result_list(res_list)
        q == separate_result_queue(res_list)
    IN  /\ IsStablePart(l[1], res_list, FALSE)
        /\ IsStablePart(l[2], res_list, TRUE)
        /\ Len(l[1]) + Len(l[2]) = Len(res_list)
        /\ IsStablePart(q[1], res_list, FALSE)
        /\ IsStablePart(q[2], res_list, TRUE)
        /\ Len(q[1]) + Len(q[2]) = Len(res_list)
        /\ (pc = "done" =>
                /\ IsStablePart(sent_list, res_list, FALSE)
                /\ IsStablePart(failed_list, res_list, TRUE))

\* successes and failures of two error kinds interleaved in the responses
C11_Witness ==
    /\ pc = "done"
    /\ Len(res_list) >= 4
    /\ res_list[1].result.kind = "sent"
    /\ res_list[2].result.kind = "TimedOut"
    /\ res_list[3].result.kind = "sent"
    /\ res_list[4].result.kind = "CallbackError"
    /\ Len(sent_list) = 2 /\ Len(failed_list) = 2

\* C12 (as claimed): when a success callback is given, a returned broadcast
\* has invoked it exactly once with the id of every recipient whose delivery
\* succeeded and never with the id of any other recipient, so the number of
\* invocations equals the number of successful deliveries, in all three
\* strategies.
C12_CallbackOncePerSuccess ==
    (pc = "done" /\ cfg.has_cb) =>
        \A i \in Recipients :
            cb_calls[i] = IF task[i].st = "done" /\ task[i].kind = "sent"
                          THEN 1 ELSE 0

\* C13: a remote call that times out is never retried, on the first attempt
\* or after rate-limit retries: the activation ends the delivery, the
\* outcome is a failure of kind TimedOut whose message carries the elapsed
\* time of the call, and no attempt follows.
C13_TimeoutNotRetried ==
    /\ ev.outcome = "TimedOut" =>
           /\ ev.k # "retry"
           /\ ev.kind = "TimedOut"
           /\ ev.msg_elapsed = {ev.sent_time}
           /\ ev.attempts = ev.n + 1
           /\ task[ev.rid].st = "done"
           /\ task[ev.rid].kind = "TimedOut"
    /\ \A i \in Recipients :
           (task[i].st = "done" /\ task[i].kind = "TimedOut") =>
               (ev.rid = i => ev.outcome = "TimedOut")

\* a timeout on the third attempt, after two rate-limit retries, that took
\* a time above zero
C13_Witness ==
    /\ ev.outcome = "TimedOut"
    /\ ev.attempts = 3 /\ ev.n = 2
    /\ ev.sent_time = 2
    /\ task[ev.rid].kind = "TimedOut"

C15_PacingFloor ==
    (ev.outcome = "ok" /\ ev.kind = "sent") =>
        /\ (ev.sent_time < ev.seconds => ev.slept = ev.seconds - ev.sent_time)
        /\ ev.sent_time + ev.slept >= ev.seconds

\* C16: in both pooled strategies the pool is created with the core count
\* when use_nproc is requested larger than the core count, and with
\* use_nproc itself when it is at most the core count; the clamp raises no
\* error and the broadcast proceeds.
C16_WorkerCountClamp ==
    strategy \in PooledStrategies =>
        /\ (cfg.use_nproc > cfg.cpu_count => UseNproc = cfg.cpu_count)
        /\ (cfg.use_nproc <= cfg.cpu_count => UseNproc = cfg.use_nproc)
        /\ exc = "none" /\ pc # "raised"
        /\ (WorkerFree <=> Cardinality(Running) < Min(cfg.use_nproc, cfg.cpu_count))

\* three workers requested on a host of two cores: the broadcast returned
\* with both recipients delivered to
C16_Witness ==
    /\ strategy \in PooledStrategies
    /\ pc = "done"
    /\ cfg.cpu_count = 2 /\ cfg.use_nproc = 3
    /\ Len(sent_list) = 2 /\ failed_list = <<>>

\* C17: in both pooled strategies the number of deliveries executing at the
\* same time never exceeds min(use_nproc, core count), however many
\* recipients were submitted; a submitted task beyond that bound stays
\* queued until a worker is free.
C17_BoundedConcurrency ==
    strategy \in PooledStrategies =>
        /\ Cardinality(Running) <= Min(cfg.use_nproc, cfg.cpu_count)
        /\ Running \cap Queued = {}
        /\ \A i \in Running \cup Queued : \E k \in 1..Len(futures) : futures[k] = i

\* two workers requested on a host of one core: one delivery runs and the
\* other submitted task waits
C17_Witness ==
    /\ strategy \in PooledStrategies
    /\ cfg.cpu_count = 1 /\ cfg.use_nproc = 2
    /\ Cardinality(Running) = 1
    /\ Queued # {}

\* whether recipient i was handed to the pool
Submitted(i) == \E k \in 1..Len(futures) : futures[k] = i

\* C18 (as claimed): when AsyncProcessPool returns, a recipient whose
\* submission raised has exactly one JobResponse, a Failure carrying the
\* submission error, and every other recipient was still submitted and has
\* the outcome of its own delivery collected as its JobResponse.
C18_SubmitFailureCaptured ==
    (pc = "done" /\ strategy = "AsyncProcessPool" /\ LengthsMatch) =>
        \A i \in 1..cfg.n_sub :
            IF Submitted(i)
            THEN \E k \in 1..Len(res_list) :
                    /\ res_list[k].telegram_id = i
                    /\ res_list[k].result.to = i
                    /\ res_list[k].result.kind = task[i].kind
            ELSE /\ Count(res_list, i) = 1
                 /\ \E k \in 1..Len(failed_list) :
                        /\ failed_list[k].telegram_id = i
                        /\ failed_list[k].result.kind = "SubmitError"

\* how far the delivery of a recipient has come
Rank(st) ==
    CASE st = "pending" -> 0
      [] st = "queued" -> 1
      [] st = "running" -> 2
      [] st = "done" -> 3

\* C19 (as claimed): when a broadcast returns, the strategy has invoked the
\* delivery exactly once for every recipient.
C19_DeliveredExactlyOnce ==
    (pc = "done" /\ LengthsMatch /\ ValidIdentifiers) =>
        \A i \in 1..cfg.n_sub : task[i].st = "done"

\* C19 (amended): in every strategy the delivery of a recipient only moves
\* forward, from pending over queued and running to done, and is invoked at
\* most once: a delivery that is done has exactly one outcome, success or one
\* failure kind, and is never changed or started again, whatever the failure
\* (ExceedMaxRetriesError included); when the strategy returns, every
\* recipient that was started or submitted is done, and the only recipients
\* never delivered to are those beyond the shortest input list and those
\* whose submission raised.
C19_PerRecipientStateMachine ==
    /\ [][\A i \in Recipients :
            /\ Rank(task'[i].st) >= Rank(task[i].st)
            /\ (task[i].st = "done" => task'[i] = task[i])
            /\ (task'[i].st = "done" =>
                    /\ task'[i].kind # "none"
                    /\ task'[i].how \in {"returned", "raised"})]_vars
    /\ [](pc = "done" =>
            \A i \in Recipients :
                /\ task[i].st \in {"pending", "done"}
                /\ (task[i].st = "pending" =>
                        i > ZipLen \/ (strategy = "AsyncProcessPool" /\ ~Submitted(i))))

\* a delivery that ended with ExceedMaxRetriesError, in a broadcast that
\* returned after going on to the next recipient
C19_Witness ==
    /\ pc = "done"
    /\ task[1].st = "done" /\ task[1].kind = "ExceedMaxRetriesError"
    /\ task[2].st = "done" /\ task[2].kind = "sent"
    /\ Count(res_list, 1) = 1

\* stats at hand in a state: the sum so far, the stats of the returned pair,
\* their sum, and the default BroadcastStats()
StatsAtHand ==
    {total, evaluate_broadcast_stats(sent_list, failed_list),
     StatsAdd(total, evaluate_broadcast_stats(sent_list, failed_list)),
     BroadcastStats(0, 0, 0)}

\* the responses split into two shards after the first k, each partitioned
ShardPair(k) ==
    <<separate_result_list(SubSeq(res_list, 1, k)),
      separate_result_list(SubSeq(res_list, k + 1, Len(res_list)))>>

\* C20: BroadcastStats.__add__ is the componentwise sum of n_job, n_success
\* and n_failure; it is associative and commutative, BroadcastStats(0, 0, 0)
\* is its identity, it leaves both operands as they were, and the stats of
\* two shards' concatenated (succeeded, failed) lists are the sum of the
\* shards' stats.
C20_StatsMonoid ==
    LET H == StatsAtHand
        zero == BroadcastStats(0, 0, 0)
    IN  /\ \A a, b \in H :
               LET ab == StatsAddEffect(a, b)
               IN  /\ ab.result.n_job = a.n_job + b.n_job
                   /\ ab.result.n_success = a.n_success + b.n_success
                   /\ ab.result.n_failure = a.n_failure + b.n_failure
                   /\ ab.result = StatsAdd(b, a)
                   /\ ab.self = a
                   /\ ab.other = b
                   /\ \A c \in H :
                          StatsAdd(ab.result, c) = StatsAdd(a, StatsAdd(b, c))
        /\ \A a \in H : StatsAdd(a, zero) = a /\ StatsAdd(zero, a) = a
        /\ \A k \in 0..Len(res_list) :
               LET A == ShardPair(k)[1]
                   B == ShardPair(k)[2]
               IN  evaluate_broadcast_stats(A[1] \o B[1], A[2] \o B[2])
                       = StatsAdd(evaluate_broadcast_stats(A[1], A[2]),
                                  evaluate_broadcast_stats(B[1], B[2]))

\* a sum of two mixed results, and responses that split into two shards
\* each holding a success and a failure
C20_Witness ==
    /\ n_combined = 2
    /\ total.n_success >= 2 /\ total.n_failure >= 2
    /\ Len(res_list) >= 4
    /\ Len(ShardPair(2)[1][1]) = 1 /\ Len(ShardPair(2)[1][2]) = 1
    /\ Len(ShardPair(2)[2][1]) = 1 /\ Len(ShardPair(2)[2][2]) = 1

\* the lines of a text that are closed by a line break
ClosedLines(text) == SubSeq(text, 1, Len(text) - 1)

RECURSIVE SumOver(_, _, _)
\* the sum of f[k] for k in lo..hi
SumOver(f, lo, hi) == IF lo > hi THEN 0 ELSE f[lo] + SumOver(f, lo + 1, hi)

\* the lines a payload takes when it is written
PayloadLines(payload) == IF payload.whole THEN 1 ELSE cfg.content_lines

\* the lines one call adds: those of its header and of each of its records
CallLines(call) ==
    PayloadLines(call.payload)
        + SumOver([k \in 1..Len(call.list) |-> PayloadLines(call.list[k].payload)],
                  1, Len(call.list))

\* the tokens that open a header or a record, in the order of the log
Openers(text) ==
    LET lines == ClosedLines(text)
        first(k) == lines[k][1]
        P == {k \in 1..Len(lines) :
                /\ lines[k] # <<>>
                /\ DOMAIN first(k) \in {{"lit"}, {"telegram_id"}}}
    IN  [j \in 1..Cardinality(P) |->
            first(CHOOSE k \in P : Cardinality({m \in P : m <= k}) = j)]

RECURSIVE CallOpeners(_)
\* the openers the calls made so far should have left, in call order
CallOpeners(cs) ==
    IF cs = <<>> THEN <<>>
    ELSE <<[lit |-> "Payload: "]>>
             \o [k \in 1..Len(Head(cs).list) |->
                    [telegram_id |-> Head(cs).list[k].telegram_id]]
             \o CallOpeners(Tail(cs))

\* C21 (as claimed): every write_sent_result call adds exactly one header
\* line and one line per JobResponse, so the log has as many lines as the
\* calls made have headers and responses.
C21_OneLinePerRecord ==
    Len(ClosedLines(log))
        = SumOver([c \in 1..Len(calls) |-> 1 + Len(calls[c].list)], 1, Len(calls))

\* C21 (amended): the log is append-only: a call leaves every line written
\* before as it was and adds, at the end, its header and then one record per
\* JobResponse in list order, each closed by a line break, so the log holds
\* the records of all calls in call order; a header or record takes as many
\* lines as the payload it embeds (one when the payload has no line break).
C21_AppendOnly ==
    /\ [][/\ Len(log') >= Len(log)
          /\ \A k \in 1..(Len(log) - 1) : log'[k] = log[k]]_vars
    /\ [](/\ log[Len(log)] = <<>>
          /\ Len(ClosedLines(log))
                 = SumOver([c \in 1..Len(calls) |-> CallLines(calls[c])],
                           1, Len(calls))
          /\ Openers(log) = CallOpeners(calls)
          /\ (cfg.content_lines = 1 => C21_OneLinePerRecord))

\* two calls with responses, written with a content element of two lines
C21_Witness ==
    /\ pc = "log"
    /\ cfg.content_lines = 2
    /\ Len(calls) = 2
    /\ Len(calls[1].list) = 2 /\ Len(calls[2].list) = 2
    /\ calls[1].list # calls[2].list
    /\ Len(ClosedLines(log)) > 6

\* what the remote call can raise besides RetryAfter, TimedOut, Forbidden and
\* BadRequest
OtherErrors == {"TelegramError", "FileNotFoundError", "Exception"}

Members(list) == {list[k] : k \in 1..Len(list)}

\* the recipients a returned broadcast delivered to with success / failure
Succeeded == {i \in Recipients : task[i].st = "done" /\ task[i].kind = "sent"}

Failed == {i \in Recipients : task[i].st = "done" /\ task[i].kind # "sent"}

\* C23 (as claimed): AsyncMultiProcessingPool and AsyncProcessPool are
\* functionally equivalent: for the same recipients, content and remote
\* behaviour each returns the same JobResponses in succeeded and in failed
\* and invokes the callback for the same recipients, namely those the
\* deliveries determine: recipient i with content[i] and the outcome of its
\* delivery, and the callback once for every success.
C23_PoolsEquivalent ==
    (pc = "done" /\ strategy \in PooledStrategies /\ LengthsMatch
     /\ Len(futures) = cfg.n_sub) =>
        /\ Members(sent_list)
               = {JobResponse(i, Elem(i), Artifact(i)) : i \in Succeeded}
        /\ {jr \in Members(failed_list) : jr.result.kind # "CallbackError"}
               = {JobResponse(i, Elem(i), ErrorInformation(task[i].kind, i)) :
                      i \in Failed}
        /\ \A i \in Recipients :
               cb_calls[i] = IF cfg.has_cb /\ i \in Succeeded THEN 1 ELSE 0

\* floor(x) of a duration x >= 0 in ticks: the whole seconds in it
FloorSeconds(x) ==
    CHOOSE m \in 0..x : m % TicksPerSecond = 0 /\ m <= x /\ x < m + TicksPerSecond

\* C24: a rate-limited call whose incremented retry counter is below
\* max_retry sleeps max(T, floor(seconds) + 1) seconds, T being the
\* retry_after reported, before the delivery goes on to its next attempt; the
\* sleep is at least T and at least one second.
C24_Backoff ==
    ev.k = "retry" =>
        /\ ev.outcome = "RetryAfter"
        /\ ev.n < cfg.max_retry
        /\ ev.slept = Max(ev.retry_after, FloorSeconds(ev.seconds) + TicksPerSecond)
        /\ ev.slept >= ev.retry_after
        /\ ev.slept >= TicksPerSecond
        /\ task[ev.rid].st = "running"
        /\ task[ev.rid].n_retry = ev.n
        /\ task[ev.rid].attempts = ev.attempts

\* seconds = 1.5 and retry_after = 0: the retry waits 2 seconds
C24_Witness ==
    /\ ev.k = "retry"
    /\ ev.seconds = 3 /\ ev.retry_after = 0
    /\ ev.slept = 4
    /\ strategy = "AsyncSequential"

\* C25: in AsyncSequential at most one delivery is in flight and the
\* deliveries are made in input order: while recipient idx is being
\* delivered to (retries and sleeps included) every earlier recipient's
\* delivery is complete and no later recipient has had an attempt.
C25_SequentialOneInFlight ==
    strategy = "AsyncSequential" =>
        /\ Cardinality(Running) <= 1
        /\ Queued = {}
        /\ \A i \in Recipients :
               /\ (i < idx => task[i].st = "done")
               /\ (i > idx => task[i] = NoTask)
               /\ (task[i].st = "running" => i = idx)
        /\ (ev.rid # 0 => ev.rid = IF ev.k = "retry" THEN idx ELSE idx - 1)

\* the second recipient is in its retries, the first is complete (its
\* retries ran out), the third has not been started
C25_Witness ==
    /\ strategy = "AsyncSequential"
    /\ cfg.n_sub = 3
    /\ task[1].st = "done" /\ task[1].kind = "ExceedMaxRetriesError"
    /\ task[2].st = "running" /\ task[2].n_retry = 2
    /\ task[3] = NoTask

\* C26: in AsyncSequential the success callback of recipient i is invoked
\* right after the successful delivery to i: at every moment every recipient
\* delivered to with success has had its callback invoked once, so also
\* before any attempt for recipient i + 1 is made, and no other recipient has
\* had a callback.
C26_CallbackBeforeNextDelivery ==
    (strategy = "AsyncSequential" /\ cfg.has_cb) =>
        \A i \in Recipients :
            /\ cb_calls[i] = IF task[i].st = "done" /\ task[i].kind = "sent"
                             THEN 1 ELSE 0
            /\ (i + 1 \in Recipients /\ task[i + 1].st # "pending"
                /\ task[i].kind = "sent") => cb_calls[i] = 1

\* the callback of the first recipient has run and the second recipient is
\* being delivered to
C26_Witness ==
    /\ strategy = "AsyncSequential" /\ cfg.has_cb
    /\ task[1].st = "done" /\ task[1].kind = "sent" /\ cb_calls[1] = 1
    /\ task[2].st = "running" /\ cb_calls[2] = 0

\* C27: in AsyncMultiProcessingPool no result is read, no response recorded
\* and no success callback invoked before every recipient has been submitted
\* and every submitted delivery has finished.
C27_PoolBarrier ==
    (strategy = "AsyncMultiProcessingPool"
     /\ (pc \in {"mp_collect", "done"} \/ cidx > 1 \/ res_list # <<>>
         \/ \E i \in Recipients : cb_calls[i] > 0)) =>
        /\ idx > ZipLen
        /\ Len(futures) = ZipLen
        /\ \A i \in 1..ZipLen : Submitted(i) /\ task[i].st = "done"
        /\ Running = {} /\ Queued = {}

\* both deliveries have finished, one of them after the other although it
\* was submitted first, and the first result is about to be read
C27_Witness ==
    /\ strategy = "AsyncMultiProcessingPool"
    /\ pc = "mp_collect" /\ cidx = 1
    /\ Len(futures) = 2
    /\ ev = NoEvent
    /\ task[1].kind = "TimedOut" /\ task[2].kind = "sent"
    /\ res_list = <<>>

\* C28: in AsyncProcessPool the tasks are submitted in input order, two
\* consecutive submissions are at least `seconds` apart whenever seconds > 0,
\* whatever the earlier tasks have done by then, and no future is awaited
\* before the submission loop has passed the last recipient.
C28_SubmissionOrderAndSpacing ==
    strategy = "AsyncProcessPool" =>
        /\ StrictlyIncreasing(futures)
        /\ Len(sub_at) = Len(futures)
        /\ \A k \in 1..Len(futures) : futures[k] < idx
        /\ \A k \in 1..(Len(sub_at) - 1) :
               sub_at[k + 1] - sub_at[k] >= cfg.seconds
        /\ (Len(sub_at) > 0 => clock - sub_at[Len(sub_at)] >= cfg.seconds)
        /\ ((cidx > 1 \/ \E i \in Recipients : cb_calls[i] > 0) => idx > ZipLen)

\* both recipients were submitted under a pacing delay of one second, the
\* second a tick later than asked, and the first future has been awaited
C28_Witness ==
    /\ strategy = "AsyncProcessPool"
    /\ cfg.seconds = TicksPerSecond
    /\ futures = <<1, 2>>
    /\ sub_at[2] - sub_at[1] = TicksPerSecond + 1
    /\ task[1].st = "done" /\ task[2].st = "queued"
    /\ cidx = 2

\* a step under a pooled strategy only appends to res_list, and a step of a
\* worker does not touch it
ResultsKept ==
    strategy \in PooledStrategies =>
        /\ Len(res_list') >= Len(res_list)
        /\ SubSeq(res_list', 1, Len(res_list)) = res_list
        /\ ((ev'.rid # 0 \/ Running' # Running) => res_list' = res_list)

\* C29: in both pooled strategies every delivery that a worker runs has a
\* client of its own, made by broadcast_method_wrapper, and no two deliveries
\* use the same instance; a step of a worker leaves res_list alone, and
\* res_list only ever grows at its end, so no recorded result is lost or
\* changed by any interleaving of the workers.
C29_WorkerIsolation ==
    /\ [](strategy \in PooledStrategies =>
            /\ \A i \in Recipients :
                   task[i].st \in {"running", "done"} => task[i].bot # 0
            /\ \A i, j \in Recipients :
                   (i # j /\ task[i].bot # 0) => task[i].bot # task[j].bot)
    /\ [][ResultsKept]_vars

\* two workers run the two deliveries at the same time, each with its own
\* client, the first of them after one attempt already
C29_Witness ==
    /\ strategy \in PooledStrategies
    /\ Running = {1, 2}
    /\ task[1].bot = 1 /\ task[2].bot = 2
    /\ task[1].attempts = 1

Died(i) == task[i].how = "died"

\* C30: in both pooled strategies, once the worker running the delivery of
\* recipient i has died, the broadcast goes on to return, and the returned
\* lists hold exactly one response of recipient i, a failure.
C30_WorkerDeathStillOneFailure ==
    \A i \in Recipients :
        Died(i) ~> (/\ pc = "done"
                    /\ Count(sent_list, i) = 0
                    /\ Count(failed_list, i) = 1)

\* C31: in every strategy, a recipient whose delivery succeeded and whose
\* success callback was invoked, raising or not, has one JobResponse in the
\* returned lists: it is in succeeded, and failed holds none for it.
C31_CallbackFailureIsolated ==
    pc = "done" =>
        \A i \in Recipients :
            cb_calls[i] > 0 =>
                Count(sent_list, i) = 1 /\ Count(failed_list, i) = 0

\* C32: every JobResponse AsyncProcessPool has recorded from a future names
\* the recipient the future was submitted for: the k-th collected future is
\* recorded under recipient futures[k], also after a submission that raised.
C32_ResultAttribution ==
    strategy = "AsyncProcessPool" =>
        \A k \in 1..Len(res_list) :
            res_list[k].result.kind # "CallbackError" =>
                res_list[k].result.to = res_list[k].telegram_id

\* C33: in all three strategies the payload field of every recorded
\* JobResponse is the one content element delivered to its recipient.
C33_PayloadIsElement ==
    \A k \in 1..Len(res_list) :
        res_list[k].payload = Elem(res_list[k].telegram_id)

\* C34: with max_retry <= 1, zero and negative values included, a delivery
\* makes one remote attempt and never calls itself again; a rate-limited
\* attempt raises ExceedMaxRetriesError at once, without a backoff sleep.
C34_RetryBoundEdge ==
    (cfg.max_retry <= 1 /\ pc \in {"one_run", "one_unwind", "one_end"}) =>
        /\ Len(frames) <= 1
        /\ ev.k # "retry"
        /\ ev.attempts <= 1
        /\ (ev.rid # 0 => ev.attempts = 1 /\ task[1].st = "done")
        /\ (ev.outcome = "RetryAfter" =>
                /\ ev.k = "raise"
                /\ ev.kind = "ExceedMaxRetriesError"
                /\ ev.slept = 0)

\* a delivery with a negative max_retry was rate-limited on its one attempt,
\* although the server asked for a wait, and the error has reached the caller
C34_Witness ==
    /\ cfg.max_retry = MinRetryCfg
    /\ cfg.caller = "strategy"
    /\ pc = "one_end"
    /\ ev.outcome = "RetryAfter" /\ ev.retry_after > 0
    /\ exc = "ExceedMaxRetriesError"

\* C35: a delivery started by get_file_id starts with a retry counter of 0,
\* whatever seconds is, and a delivery of it that fails with
\* ExceedMaxRetriesError has made max(1, max_retry) attempts, as many as a
\* delivery started by a strategy makes.
C35_GetFileIdFullBudget ==
    (cfg.caller = "get_file_id" /\ pc \in {"one_run", "one_unwind", "one_end"}) =>
        /\ (frames # <<>> => frames[1].n_retry = 0)
        /\ (ev.kind = "ExceedMaxRetriesError" =>
                ev.attempts = Max(1, cfg.max_retry))

\* C36: in both pooled strategies the configured seconds is slept between
\* submissions only: a worker's delivery runs with a pacing interval of 0,
\* sleeps nothing after a successful call, and backs off max(T, 1) seconds
\* after a rate-limited one, whatever seconds is configured.
C36_PacingOnlyBetweenSubmissions ==
    strategy \in PooledStrategies =>
        /\ (Len(sub_at) > 0 => clock - sub_at[Len(sub_at)] >= cfg.seconds)
        /\ (ev.rid # 0 =>
                /\ ev.seconds = 0
                /\ (ev.kind = "sent" => ev.slept = 0)
                /\ (ev.k = "retry" =>
                        ev.slept = Max(ev.retry_after, TicksPerSecond)))

\* seconds is the largest configured: the one submission was followed by a
\* sleep of that long, and the worker's rate-limited call, told to wait 0
\* seconds, backs off 1 second
C36_Witness ==
    /\ strategy \in PooledStrategies
    /\ cfg.seconds = MaxSeconds
    /\ clock = MaxSeconds
    /\ ev.k = "retry" /\ ev.retry_after = 0
    /\ ev.slept = TicksPerSecond

\* C37: when no submission failed, the two lists a pooled strategy returns
\* are each in input order, in whatever order the workers finished.
C37_PooledListsInInputOrder ==
    (strategy \in PooledStrategies /\ pc = "done" /\ Len(futures) = ZipLen) =>
        /\ StrictlyIncreasing(Ids(sent_list))
        /\ StrictlyIncreasing(Ids(failed_list))
        /\ \A k \in 1..Len(res_list) : \A m \in 1..Len(res_list) :
               k < m => /\ res_list[k].telegram_id <= res_list[m].telegram_id
                        /\ res_list[k].result.to <= res_list[m].result.to

\* two workers ran the two deliveries side by side; both lists hold two
\* responses, the callback of each recipient having raised
C37_Witness ==
    /\ strategy \in PooledStrategies
    /\ pc = "done"
    /\ UseNproc = 2
    /\ task[1].bot # 0 /\ task[2].bot # 0
    /\ Ids(sent_list) = <<1, 2>>
    /\ Ids(failed_list) = <<1, 2>>

\* recipient i is no longer pending: its delivery has started, or a response
\* is on record for it
LeftPending(i) ==
    task[i].st # "pending" \/ \E k \in 1..Len(res_list) : res_list[k].telegram_id = i

\* no delivery makes more than max(1, max_retry) remote attempts
AttemptsBounded ==
    /\ ev.attempts <= Max(1, cfg.max_retry)
    /\ \A i \in Recipients : task[i].attempts <= Max(1, cfg.max_retry)

\* a recipient is delivered to once: a finished delivery is not started again
DeliveredOnce ==
    \A i \in Recipients : task[i].st = "done" => task'[i].st = "done"

\* C38: every broadcast comes to its end, under each of the three strategies
\* every recipient of the list leaves Pending, and the broadcast makes at
\* most n * max(1, max_retry) remote attempts: each of the n recipients is
\* delivered to at most once, with at most max(1, max_retry) attempts.
C38_Termination ==
    /\ <>(pc \in {"done", "raised"})
    /\ \A i \in Recipients :
           <>(\/ i > cfg.n_sub
              \/ cfg.strategy_arg \notin BroadcastStrategyType
              \/ LeftPending(i))
    /\ []AttemptsBounded
    /\ [][DeliveredOnce]_vars

\* what the last attempt of a delivery makes of the answer of the remote call
LastAttemptKind(sender, outcome) ==
    CASE outcome = "ok" -> "sent"
      [] outcome = "RetryAfter" -> "ExceedMaxRetriesError"
      [] outcome = "TimedOut" -> "TimedOut"
      [] outcome = "Forbidden" -> "Forbidden"
      [] outcome = "FileNotFoundError" /\ sender # "sendMessage" -> "FileNotFoundError"
      [] OTHER -> "TelegramSendError"

\* C39: the outcome of a delivery is the outcome of its last attempt: after
\* any number of rate-limited attempts, a last attempt that succeeds makes
\* the delivery return its result, and a last attempt that fails makes it
\* raise that failure, which every enclosing activation passes on as it is;
\* no attempt follows.
C39_LastAttemptDecides ==
    pc \in {"one_unwind", "one_end"} =>
        /\ task[1].st = "done"
        /\ task[1].kind = ev.kind
        /\ task[1].kind = LastAttemptKind(method, ev.outcome)
        /\ task[1].how = (IF ev.outcome = "ok" THEN "returned" ELSE "raised")
        /\ (pc = "one_end" =>
                exc = (IF ev.outcome = "ok" THEN "none" ELSE ev.kind))

\* after two rate-limited attempts the third gave up; the error has passed
\* the two enclosing activations and reached the caller
C39_Witness ==
    /\ pc = "one_end"
    /\ cfg.caller = "strategy"
    /\ ev.attempts = 3
    /\ ev.outcome = "RetryAfter"
    /\ exc = "ExceedMaxRetriesError"

\* C40: in a delivery started with counter 0, the counter of the running
\* activation is the number of rate-limit responses received so far and is
\* below max(1, max_retry); each rate-limited activation calls the sender
\* with the counter one higher and all other arguments as it got them.
C40_RetryCounter ==
    (cfg.caller = "strategy" /\ frames # <<>>) =>
        /\ \A k \in 1..Len(frames) :
               /\ frames[k].n_retry = k - 1
               /\ frames[k].n_retry < Max(1, cfg.max_retry)
               /\ [frames[k] EXCEPT !.n_retry = 0] = frames[1]
        /\ (pc = "one_run" =>
                /\ Top.n_retry = task[1].attempts
                /\ Top.n_retry = task[1].n_retry
                /\ (ev.rid # 0 => ev.outcome = "RetryAfter" /\ ev.n = Top.n_retry))
        /\ frames[1] = FirstCall("strategy", cfg.seconds, cfg.max_retry)

\* the third activation runs, after two rate-limit responses
C40_Witness ==
    /\ cfg.caller = "strategy"
    /\ pc = "one_run"
    /\ Len(frames) = 3
    /\ Top.n_retry = 2
    /\ cfg.seconds > 0

====
